---- MODULE Spec2Model ----
(***************************************************************************)
(* tmpfox: run() of main.go as a state machine, with the arkenfox tag      *)
(* choice (main.go 376-395), githubTag.VersionString / VersionMajorMinor   *)
(* (main.go 519-543) and extractGUIDFromHTML (guid.go 27-59) as operators. *)
(*                                                                         *)
(* Strings that the code parses are sequences of one-character strings,    *)
(* so that the regular expressions are computed, not assumed.              *)
(***************************************************************************)
EXTENDS Integers, Sequences, FiniteSets, TLC

\* Longest tag listing returned by the github query.
MaxTags == 3
\* Largest number of <script> children of <body> in a fetched page.
MaxScripts == 2

(***************************************************************************)
(* Strings and the two regular expressions of githubTag                    *)
(***************************************************************************)
Digits == {"0", "1", "2", "3", "4", "5", "6", "7", "8", "9"}

DigitVal(c) ==
    CASE c = "0" -> 0 [] c = "1" -> 1 [] c = "2" -> 2 [] c = "3" -> 3
      [] c = "4" -> 4 [] c = "5" -> 5 [] c = "6" -> 6 [] c = "7" -> 7
      [] c = "8" -> 8 [] c = "9" -> 9

\* The literal "refs/tags/" of both regular expressions.
TagsPrefix == <<"r", "e", "f", "s", "/", "t", "a", "g", "s", "/">>

\* TRUE iff p occurs in s at position i.
HasPrefixAt(s, i, p) ==
    /\ i + Len(p) - 1 <= Len(s)
    /\ \A k \in 1..Len(p) : s[i + k - 1] = p[k]

\* Length of the greedy match of [0-9]+ in s at position i (0: no match).
RECURSIVE DigitRun(_, _)
DigitRun(s, i) ==
    IF i <= Len(s) /\ s[i] \in Digits THEN 1 + DigitRun(s, i + 1) ELSE 0

\* strconv.Atoi on a non-empty digit string. Its range error needs 19 or
\* more digits, which no ref of TagPool has.
RECURSIVE Atoi(_)
Atoi(ds) ==
    IF Len(ds) = 0 THEN 0
    ELSE 10 * Atoi(SubSeq(ds, 1, Len(ds) - 1)) + DigitVal(ds[Len(ds)])

\* TRUE iff refs/tags/([0-9]+)\.([0-9]+) matches in ref at position i.
MajorMinorAt(ref, i) ==
    LET a  == i + Len(TagsPrefix)
        d1 == DigitRun(ref, a)
        d2 == DigitRun(ref, a + d1 + 1)
    IN  /\ HasPrefixAt(ref, i, TagsPrefix)
        /\ d1 > 0
        /\ a + d1 <= Len(ref)
        /\ ref[a + d1] = "."
        /\ d2 > 0

\* githubTag.VersionMajorMinor: leftmost match of the unanchored expression.
VersionMajorMinor(t) ==
    LET ref == t.Ref
        at  == {i \in 1..Len(ref) : MajorMinorAt(ref, i)}
    IN  IF at = {} THEN [err |-> TRUE, major |-> 0, minor |-> 0]
        ELSE LET i  == CHOOSE j \in at : \A k \in at : j <= k
                 a  == i + Len(TagsPrefix)
                 d1 == DigitRun(ref, a)
                 d2 == DigitRun(ref, a + d1 + 1)
             IN  [err   |-> FALSE,
                  major |-> Atoi(SubSeq(ref, a, a + d1 - 1)),
                  minor |-> Atoi(SubSeq(ref, a + d1 + 1, a + d1 + d2))]

\* githubTag.VersionString: refs/tags/(.+), the rest of the ref after the
\* leftmost "refs/tags/" that is followed by at least one character.
VersionString(t) ==
    LET ref == t.Ref
        at  == {i \in 1..Len(ref) :
                   HasPrefixAt(ref, i, TagsPrefix) /\ i + Len(TagsPrefix) <= Len(ref)}
    IN  IF at = {} THEN [err |-> TRUE, s |-> <<>>]
        ELSE LET i == CHOOSE j \in at : \A k \in at : j <= k
             IN  [err |-> FALSE, s |-> SubSeq(ref, i + Len(TagsPrefix), Len(ref))]

\* The zero value of githubTag.
ZeroTag == [Ref |-> <<>>]

Tag(ver) == [Ref |-> TagsPrefix \o ver]

\* Tags a listing may hold: github answers the query for the refs that
\* begin with refs/tags/<major>. ; one of them does not parse to
\* <major>.<minor>, two pairs share major and minor.
TagPool ==
    { Tag(<<"9", "1", ".", "0">>),
      Tag(<<"9", "1", ".", "0", ".", "1">>),
      Tag(<<"9", "1", ".", "2">>),
      Tag(<<"9", "1", ".", "2", ".", "1">>),
      Tag(<<"9", "2", ".", "1">>),
      Tag(<<"9", "1", ".", "b">>) }

\* Major versions 'firefox --version' may report.
Majors == {91, 92}

(***************************************************************************)
(* Choice of the arkenfox tag (run, main.go 376-395)                       *)
(***************************************************************************)
\* The loop 'for _, tag := range tags' from index i on, with the running
\* maxMinor and choosenTag.
RECURSIVE ChooseLoop(_, _, _, _, _)
ChooseLoop(tags, firefoxMajor, i, maxMinor, choosen) ==
    IF i > Len(tags) THEN choosen
    ELSE LET v == VersionMajorMinor(tags[i])
         IN  IF v.err THEN ChooseLoop(tags, firefoxMajor, i + 1, maxMinor, choosen)
             ELSE IF v.major # firefoxMajor
                  THEN ChooseLoop(tags, firefoxMajor, i + 1, maxMinor, choosen)
             ELSE IF v.minor > maxMinor
                  THEN ChooseLoop(tags, firefoxMajor, i + 1, v.minor, tags[i])
             ELSE ChooseLoop(tags, firefoxMajor, i + 1, maxMinor, choosen)

\* choosenTag for a non-empty listing: tags[0] when it is the only one,
\* the loop's result (maxMinor starting at 0) otherwise.
ChooseTag(tags, firefoxMajor) ==
    IF Len(tags) = 1 THEN tags[1]
    ELSE ChooseLoop(tags, firefoxMajor, 1, 0, ZeroTag)

(***************************************************************************)
(* extractGUIDFromHTML (guid.go 27-59)                                     *)
(*                                                                         *)
(* A page is what xml.Decoder.Decode makes of it: an error, or the         *)
(* <script> children of <body> in document order, each with its id and    *)
(* its inner text. An inner text is empty, or not a JSON document, or a    *)
(* JSON document; of a document the members of addons.byGUID are kept, in  *)
(* document order, each with its key and whether its value is an integer. *)
(***************************************************************************)
StateID == "redux-store-state"

ScriptIDs == {StateID, "other"}

EmptyText == [syntax |-> "empty", members |-> <<>>]

InvalidText == [syntax |-> "invalid", members |-> <<>>]

Doc(members) == [syntax |-> "valid", members |-> members]

Member(k, v) == [key |-> k, val |-> v]

JsonTexts ==
    { EmptyText,
      InvalidText,
      Doc(<<>>),
      Doc(<<Member("uBlock0@raymondhill.net", "int")>>),
      Doc(<<Member("{74145f27}", "int")>>),
      Doc(<<Member("uBlock0@raymondhill.net", "int"), Member("{74145f27}", "int")>>),
      Doc(<<Member("uBlock0@raymondhill.net", "string")>>) }

Scripts == [ID : ScriptIDs, Inner : JsonTexts]

SeqsUpTo(S, n) == UNION {[1..k -> S] : k \in 0..n}

Pages ==
    {[decodeErr |-> TRUE, scripts |-> <<>>]}
        \cup {[decodeErr |-> FALSE, scripts |-> ss] : ss \in SeqsUpTo(Scripts, MaxScripts)}

\* FindStateScript without the 'break': the last script with the marker.
RECURSIVE FindStateScriptLast(_, _)
FindStateScriptLast(scripts, i) ==
    IF i > Len(scripts) THEN EmptyText
    ELSE LET rest == FindStateScriptLast(scripts, i + 1)
         IN  IF scripts[i].ID = StateID /\ ~(\E j \in (i + 1)..Len(scripts) : scripts[j].ID = StateID)
             THEN scripts[i].Inner
             ELSE rest

\* FindStateScript without the test of the id: the first script.
FindStateScriptAnyID(scripts, i) ==
    IF i > Len(scripts) THEN EmptyText ELSE scripts[i].Inner

\* The loop over x.Scripts from index i on: the Inner of the first script
\* whose ID is the marker; the zero value of jsonString when there is none.
RECURSIVE FindStateScript(_, _)
FindStateScript(scripts, i) ==
    IF i > Len(scripts) THEN EmptyText
    ELSE IF scripts[i].ID = StateID THEN scripts[i].Inner
    ELSE FindStateScript(scripts, i + 1)

\* JSONUnmarshal with the syntax error dropped.
JSONUnmarshalNoSyntaxError(text) ==
    [err   |-> \E i \in 1..Len(text.members) : text.members[i].val # "int",
     ByGUID |-> {text.members[i].key : i \in 1..Len(text.members)}]

\* json.Unmarshal into extensionMetadata: an error for a text that is no
\* JSON document and for a member of byGUID whose value is no int; the map
\* holds the members' keys.
JSONUnmarshal(text) ==
    [err   |-> \/ text.syntax # "valid"
               \/ \E i \in 1..Len(text.members) : text.members[i].val # "int",
     ByGUID |-> {text.members[i].key : i \in 1..Len(text.members)}]

ErrDecode == "decode failed"
ErrEmpty == "jsonString is empty"
ErrUnmarshal == "json unmarshal failed"
ErrNotFound == "not found"
NoErr == "nil"

\* jsonString == "" (guid.go 45).
JsonStringIsEmpty(jsonString) == jsonString.syntax = "empty"

\* The results extractGUIDFromHTML may return for a page: one, except that
\* 'for key := range m.Addons.ByGUID' returns any key of the map.
ExtractGUIDFromHTML(page) ==
    IF page.decodeErr THEN {[guid |-> "", err |-> ErrDecode]}
    ELSE LET jsonString == FindStateScript(page.scripts, 1)
             m == JSONUnmarshal(jsonString)
         IN  IF JsonStringIsEmpty(jsonString) THEN {[guid |-> "", err |-> ErrEmpty]}
             ELSE IF m.err THEN {[guid |-> "", err |-> ErrUnmarshal]}
             ELSE IF m.ByGUID = {} THEN {[guid |-> "", err |-> ErrNotFound]}
             ELSE {[guid |-> k, err |-> NoErr] : k \in m.ByGUID}

(***************************************************************************)
(* extractGUIDFromXPI, extractGUIDFromZipFileManifest (guid.go 74-112)     *)
(*                                                                         *)
(* An archive is what zip.OpenReader makes of it: an error, or its files   *)
(* in the archive's order. A file has its name, whether it can be opened,  *)
(* and what json Decode into extensionManifest makes of its content: an    *)
(* error, or the two ids, "" for an id the document does not give.         *)
(***************************************************************************)
\* Most files in an archive.
MaxFiles == 2

ManifestName == "manifest.json"

FileNames == {ManifestName, "icons/manifest.json"}

GeckoIDs == {"", "x@y", "{d10d0bf8}"}

Manifests ==
    {[decodeErr |-> TRUE, bss |-> "", app |-> ""]}
        \cup {[decodeErr |-> FALSE, bss |-> b, app |-> a] : b \in GeckoIDs, a \in GeckoIDs}

ZipFiles == [Name : FileNames, openErr : BOOLEAN, manifest : Manifests]

XPIs ==
    {[openErr |-> TRUE, File |-> <<>>]}
        \cup {[openErr |-> FALSE, File |-> fs] : fs \in SeqsUpTo(ZipFiles, MaxFiles)}

ErrOpenXPI == <<"failed to open XPI file">>
ErrNoManifest == <<"manifest.json file not found">>
ErrOpenFile == "failed to open file in ZIP"
ErrDecodeJSON == "failed to decode JSON"
ErrNoID == "ID not found"

\* Lines 104-107 with the two ids exchanged: applications first.
ManifestIDApplicationsFirst(m) ==
    IF m.app = "" THEN m.bss ELSE m.app

\* Lines 104-107: the id of browser_specific_settings, that of
\* applications when it is empty.
ManifestID(m) ==
    IF m.bss = "" THEN m.app ELSE m.bss

\* extractGUIDFromZipFileManifest (guid.go 93-112).
ExtractGUIDFromZipFileManifest(f) ==
    IF f.openErr THEN [guid |-> "", err |-> ErrOpenFile]
    ELSE IF f.manifest.decodeErr THEN [guid |-> "", err |-> ErrDecodeJSON]
    ELSE LET id == ManifestID(f.manifest)
         IN  IF id = "" THEN [guid |-> "", err |-> ErrNoID]
             ELSE [guid |-> id, err |-> NoErr]

\* The loop over rc.File from index i on (guid.go 80-90): the first file
\* named manifest.json decides.
RECURSIVE ManifestLoop(_, _)
ManifestLoop(files, i) ==
    IF i > Len(files) THEN [guid |-> "", err |-> ErrNoManifest]
    ELSE IF files[i].Name # ManifestName THEN ManifestLoop(files, i + 1)
    ELSE LET r == ExtractGUIDFromZipFileManifest(files[i])
         IN  IF r.err # NoErr
             THEN [guid |-> "",
                   err |-> <<"failed to extract GUID from manifest.json", r.err>>]
             ELSE [guid |-> r.guid, err |-> <<>>]

\* extractGUIDFromXPI (guid.go 74-91).
ExtractGUIDFromXPI(x) ==
    IF x.openErr THEN [guid |-> "", err |-> ErrOpenXPI]
    ELSE ManifestLoop(x.File, 1)

(***************************************************************************)
(* run (main.go 279-504)                                                   *)
(***************************************************************************)
VARIABLES
    xpi,                 \* the archive extractGUIDFromXPI is called with
    xpiPc,               \* "call" before extractGUIDFromXPI ran, "done" after
    xpiResult,           \* what it returned
    o,                   \* the options run is called with
    pc,                  \* position of run
    err,                 \* run's return value: <<>> is nil, else the message chain
    profileDirExists,    \* profileDirPath exists on disk
    profileCreated,      \* the local of that name
    removeFailed,        \* os.RemoveAll of the deferred function returned an error
    ctxDone,             \* ctx is cancelled
    signals,             \* interrupts buffered in the channel 'signals' (capacity 1)
    handler,             \* the goroutine of lines 311-314: "waiting" or "done"
    firefoxVersionMajor, \* the local of that name (0 before it is set)
    tags,                \* the decoded tag listing
    choosenTag,          \* the local of that name
    userJsFetched,       \* the user.js downloads attempted so far, each with
                         \* its URL and, for the archive of a tag, the version
                         \* string that fills the URL's %s
    userJsExists,        \* userJsPath exists on disk
    userJsWritten,       \* the extra preferences were appended to user.js
    remaining,           \* extensions the range loop has not visited yet
    extensionSlug,       \* the loop variable ("" outside the loop)
    pageHTML,            \* the page fetched for extensionSlug
    extensionGUID,       \* the GUID extracted from pageHTML
    downloaded,          \* slugs whose .xpi is in the profile
    launched             \* firefox was started on the profile

xpiVars == <<xpi, xpiPc, xpiResult>>

vars == <<xpiVars, o, pc, err, profileDirExists, profileCreated, removeFailed, ctxDone,
          signals, handler, firefoxVersionMajor, tags, choosenTag, userJsFetched,
          userJsExists, userJsWritten, remaining, extensionSlug, pageHTML,
          extensionGUID, downloaded, launched>>

\* const notSetUserJsURL (main.go 253).
notSetUserJsURL == "matching arkenfox version"

CustomURL == "https://example.org/user.js"

\* The URL of line 371.
DefaultURL == "https://raw.githubusercontent.com/arkenfox/user.js/master/user.js"

\* The URL of line 400.
ZipURL == "https://github.com/arkenfox/user.js/archive/refs/tags/%s.zip"

Slugs == {"ublock-origin", "clearurls"}

Options ==
    [Help : BOOLEAN, License : BOOLEAN, Keep : BOOLEAN,
     UserJsURL : {notSetUserJsURL, "", CustomURL},
     Extensions : SUBSET Slugs]

NoPage == [decodeErr |-> FALSE, scripts |-> <<>>]

NoXPI == [openErr |-> FALSE, File |-> <<>>]

NoResult == [guid |-> "", err |-> <<>>]

\* The locals and the disk before run has done anything.
RunInit ==
    /\ pc = "start"
    /\ err = <<>>
    /\ profileDirExists = FALSE
    /\ profileCreated = FALSE
    /\ removeFailed = FALSE
    /\ ctxDone = FALSE
    /\ signals = 0
    /\ handler = "waiting"
    /\ firefoxVersionMajor = 0
    /\ tags = <<>>
    /\ choosenTag = ZeroTag
    /\ userJsFetched = {}
    /\ userJsExists = FALSE
    /\ userJsWritten = FALSE
    /\ remaining = {}
    /\ extensionSlug = ""
    /\ pageHTML = NoPage
    /\ extensionGUID = ""
    /\ downloaded = {}
    /\ launched = FALSE

\* run is called with any options; extractGUIDFromXPI, which run does not
\* call, is not.
Init ==
    /\ o \in Options
    /\ RunInit
    /\ xpi = NoXPI
    /\ xpiPc = "call"
    /\ xpiResult = NoResult

diskVars == <<profileDirExists, userJsExists, userJsWritten, downloaded>>
sigVars == <<ctxDone, signals, handler>>
tagVars == <<firefoxVersionMajor, tags, choosenTag>>
extVars == <<remaining, extensionSlug, pageHTML, extensionGUID>>

\* 'return fmt.Errorf(...)' after the deferred functions are registered.
Return(e) ==
    /\ pc' = "defers"
    /\ err' = e

\* Results of an operation bound to ctx through os/exec: it fails once ctx
\* is cancelled.
ExecResults == IF ctxDone THEN {"err"} ELSE {"ok", "err"}

\* Results of openURLHTML and downloadFile, which take ctx; their code is
\* not among the sources, so either result is possible whether or not ctx
\* is cancelled. A download that succeeds leaves its file on disk.
HTTPResults == {"ok", "err"}

\* Lines 280-287: -h and -license return before anything is set up.
RunHelp ==
    /\ pc = "start"
    /\ o.Help
    /\ pc' = "returned"
    /\ UNCHANGED <<xpiVars, o, err, profileCreated, removeFailed, userJsFetched, launched,
                   diskVars, sigVars, tagVars, extVars>>

RunLicense ==
    /\ pc = "start"
    /\ ~o.Help
    /\ o.License
    /\ pc' = "returned"
    /\ UNCHANGED <<xpiVars, o, err, profileCreated, removeFailed, userJsFetched, launched,
                   diskVars, sigVars, tagVars, extVars>>

\* Lines 290-314: the profile name, the deferred deletion, the context and
\* the signal handler. A failure of randomProfileName returns before the
\* deferred function is registered.
Setup ==
    /\ pc = "start"
    /\ ~o.Help
    /\ ~o.License
    /\ \E r \in {"ok", "err"} :
          IF r = "err"
          THEN /\ pc' = "returned"
               /\ err' = <<"randomProfileName() failed">>
          ELSE /\ pc' = "mkdirs"
               /\ err' = err
    /\ UNCHANGED <<xpiVars, o, profileCreated, removeFailed, userJsFetched, launched,
                   diskVars, sigVars, tagVars, extVars>>

\* UserJsBranch with the empty URL taken for the one not set.
UserJsBranchEmptyAsNotSet(url) ==
    IF url = notSetUserJsURL \/ url = "" THEN "ffversion" ELSE "dl_custom"

\* The branch of lines 342 and 442 on -userjs.
UserJsBranch(url) ==
    IF url = notSetUserJsURL THEN "ffversion"
    ELSE IF url # "" THEN "dl_custom"
    ELSE "prefs"

\* Lines 317-329: the three directories.
CreateDirectories ==
    /\ pc = "mkdirs"
    /\ \E r \in {"profiles", "profile", "extensions", "ok"} :
          /\ profileDirExists' = (r \in {"extensions", "ok"})
          /\ CASE r = "profiles" -> Return(<<"cannot create profiles directory">>)
               [] r = "profile" -> Return(<<"cannot create profile directory">>)
               [] r = "extensions" -> Return(<<"cannot create extensions directory">>)
               [] r = "ok" -> /\ pc' = UserJsBranch(o.UserJsURL)
                              /\ err' = err
    /\ UNCHANGED <<xpiVars, o, profileCreated, removeFailed, userJsFetched, launched,
                   userJsExists, userJsWritten, downloaded, sigVars, tagVars, extVars>>

\* Lines 346-358: 'firefox --version' and the major version in its output.
FirefoxVersion ==
    /\ pc = "ffversion"
    /\ \E r \in ExecResults, out \in {"nomatch", "range", "version"}, m \in Majors :
          CASE r = "err" ->
                 /\ Return(<<"failed to run command 'firefox --version'">>)
                 /\ firefoxVersionMajor' = firefoxVersionMajor
            [] r = "ok" /\ out = "nomatch" ->
                 /\ Return(<<"regular expression failed to find matches">>)
                 /\ firefoxVersionMajor' = firefoxVersionMajor
            [] r = "ok" /\ out = "range" ->
                 /\ Return(<<"failed to identify firefox version">>)
                 /\ firefoxVersionMajor' = firefoxVersionMajor
            [] r = "ok" /\ out = "version" ->
                 /\ pc' = "query"
                 /\ err' = err
                 /\ firefoxVersionMajor' = m
    /\ UNCHANGED <<xpiVars, o, profileCreated, removeFailed, userJsFetched, launched,
                   diskVars, sigVars, tags, choosenTag, extVars>>

\* Lines 361-368: the tag listing of github, fetched and decoded.
QueryGithub ==
    /\ pc = "query"
    /\ \/ /\ Return(<<"failed to query github">>)
          /\ tags' = tags
       \/ /\ Return(<<"failed to unmarshal github response">>)
          /\ tags' = tags
       \/ \E body \in SeqsUpTo(TagPool, MaxTags) :
             /\ pc' = "tags"
             /\ err' = err
             /\ tags' = body
    /\ UNCHANGED <<xpiVars, o, profileCreated, removeFailed, userJsFetched, launched,
                   diskVars, sigVars, firefoxVersionMajor, choosenTag, extVars>>

ErrInvalidTag == <<"invalid tag version">>

\* Lines 369-399 on a tag listing: where run goes next, with which
\* choosenTag and which error. An empty listing leads to the download of
\* the master user.js; otherwise a tag is chosen, and run fails when the
\* chosen tag has no version string.
SelectOutcome(listing, firefoxMajor) ==
    IF Len(listing) = 0
    THEN [pc |-> "dl_default", choosenTag |-> ZeroTag, err |-> <<>>]
    ELSE LET choosen == ChooseTag(listing, firefoxMajor)
         IN  IF VersionString(choosen).err
             THEN [pc |-> "defers", choosenTag |-> choosen, err |-> ErrInvalidTag]
             ELSE [pc |-> "dl_zip", choosenTag |-> choosen, err |-> <<>>]

\* Lines 369-399: no tag, or the choice of a tag and its version string.
SelectTag ==
    /\ pc = "tags"
    /\ LET out == SelectOutcome(tags, firefoxVersionMajor)
       IN  /\ pc' = out.pc
           /\ choosenTag' = out.choosenTag
           /\ err' = out.err
    /\ UNCHANGED <<xpiVars, o, profileCreated, removeFailed, userJsFetched, launched,
                   diskVars, sigVars, firefoxVersionMajor, tags, extVars>>

\* Lines 439-441 and the end of the block of line 342: os.Stat(userJsPath),
\* then on to the extra preferences; tags and choosenTag go out of scope.
StatUserJs(exists) ==
    IF exists
    THEN /\ pc' = "prefs"
         /\ err' = err
         /\ firefoxVersionMajor' = 0
         /\ tags' = <<>>
         /\ choosenTag' = ZeroTag
    ELSE /\ Return(<<"failed to access user.js file">>)
         /\ UNCHANGED tagVars

\* Lines 370-374: no tag in the listing, the master user.js is downloaded.
DownloadDefault ==
    /\ pc = "dl_default"
    /\ userJsFetched' = userJsFetched \cup {[url |-> DefaultURL, ref |-> <<>>]}
    /\ \E r \in HTTPResults :
          IF r = "err"
          THEN /\ Return(<<"failed to download user.js">>)
               /\ UNCHANGED <<userJsExists, tagVars>>
          ELSE /\ userJsExists' = TRUE
               /\ StatUserJs(userJsExists')
    /\ UNCHANGED <<xpiVars, o, profileCreated, removeFailed, launched, profileDirExists,
                   userJsWritten, downloaded, sigVars, extVars>>

\* Lines 400-406: the archive of the chosen tag is downloaded.
DownloadZip ==
    /\ pc = "dl_zip"
    /\ userJsFetched' = userJsFetched \cup {[url |-> ZipURL, ref |-> VersionString(choosenTag).s]}
    /\ \E r \in HTTPResults :
          IF r = "err"
          THEN Return(<<"failed to download user.js">>)
          ELSE /\ pc' = "unzip"
               /\ err' = err
    /\ UNCHANGED <<xpiVars, o, profileCreated, removeFailed, launched, diskVars, sigVars,
                   tagVars, extVars>>

\* Lines 414-441: user.js is copied out of the archive when the archive
\* holds it, and must exist afterwards.
ExtractZip ==
    /\ pc = "unzip"
    /\ \E r \in {"openzip", "noentry", "openentry", "create", "copy", "ok"} :
          CASE r = "openzip" ->
                 /\ Return(<<"failed to open zip">>)
                 /\ UNCHANGED <<userJsExists, tagVars>>
            [] r = "openentry" ->
                 /\ Return(<<"failed to open file in zip">>)
                 /\ UNCHANGED <<userJsExists, tagVars>>
            [] r = "create" ->
                 /\ Return(<<"failed to create file">>)
                 /\ UNCHANGED <<userJsExists, tagVars>>
            [] r = "copy" ->
                 /\ Return(<<"failed to copy file from zip">>)
                 /\ userJsExists' = TRUE
                 /\ UNCHANGED tagVars
            [] r = "noentry" ->
                 /\ userJsExists' = userJsExists
                 /\ StatUserJs(userJsExists')
            [] r = "ok" ->
                 /\ userJsExists' = TRUE
                 /\ StatUserJs(userJsExists')
    /\ UNCHANGED <<xpiVars, o, profileCreated, removeFailed, userJsFetched, launched,
                   profileDirExists, userJsWritten, downloaded, sigVars, extVars>>

\* Lines 442-448: the URL given with -userjs is downloaded.
DownloadCustom ==
    /\ pc = "dl_custom"
    /\ userJsFetched' = userJsFetched \cup {[url |-> o.UserJsURL, ref |-> <<>>]}
    /\ \E r \in HTTPResults :
          IF r = "err"
          THEN /\ Return(<<"failed to download user.js">>)
               /\ userJsExists' = userJsExists
          ELSE /\ pc' = "prefs"
               /\ err' = err
               /\ userJsExists' = TRUE
    /\ UNCHANGED <<xpiVars, o, profileCreated, removeFailed, launched, profileDirExists,
                   userJsWritten, downloaded, sigVars, tagVars, extVars>>

\* Lines 451-468: user.js is opened with O_CREATE|O_APPEND and the extra
\* preferences are written; then the range over o.Extensions begins.
AppendPrefs ==
    /\ pc = "prefs"
    /\ \E r \in {"open", "write", "ok"} :
          CASE r = "open" ->
                 /\ Return(<<"failed to open user.js">>)
                 /\ UNCHANGED <<userJsExists, userJsWritten, remaining>>
            [] r = "write" ->
                 /\ Return(<<"failed to write to user.js">>)
                 /\ userJsExists' = TRUE
                 /\ UNCHANGED <<userJsWritten, remaining>>
            [] r = "ok" ->
                 /\ pc' = "ext"
                 /\ err' = err
                 /\ userJsExists' = TRUE
                 /\ userJsWritten' = TRUE
                 /\ remaining' = o.Extensions
    /\ UNCHANGED <<xpiVars, o, profileCreated, removeFailed, userJsFetched, launched,
                   profileDirExists, downloaded, sigVars, tagVars, extensionSlug,
                   pageHTML, extensionGUID>>

\* Line 471, the range over o.Extensions has elements left (in any order,
\* as Go ranges over a map), and lines 472-477: the extension's page.
FetchPage ==
    /\ pc = "ext"
    /\ remaining # {}
    /\ \E slug \in remaining :
          /\ remaining' = remaining \ {slug}
          /\ extensionSlug' = slug
          /\ \/ /\ Return(<<"cannot open url">>)
                /\ pageHTML' = pageHTML
             \/ \E page \in Pages :
                   /\ pc' = "guid"
                   /\ err' = err
                   /\ pageHTML' = page
    /\ UNCHANGED <<xpiVars, o, profileCreated, removeFailed, userJsFetched, launched,
                   diskVars, sigVars, tagVars, extensionGUID>>

\* Lines 478-481: the GUID of the page.
ExtractGUID ==
    /\ pc = "guid"
    /\ \E r \in ExtractGUIDFromHTML(pageHTML) :
          /\ extensionGUID' = r.guid
          /\ IF r.err # NoErr
             THEN Return(<<"failed to extract GUID from html", r.err>>)
             ELSE /\ pc' = "dl_xpi"
                  /\ err' = err
    /\ UNCHANGED <<xpiVars, o, profileCreated, removeFailed, userJsFetched, launched,
                   diskVars, sigVars, tagVars, remaining, extensionSlug, pageHTML>>

\* DownloadXpi with the download's error dropped.
DownloadXpiErrorDropped ==
    /\ pc = "dl_xpi"
    /\ \E r \in HTTPResults :
          /\ pc' = "ext"
          /\ err' = err
          /\ downloaded' = IF r = "ok" THEN downloaded \cup {extensionSlug} ELSE downloaded
          /\ extensionSlug' = ""
          /\ pageHTML' = NoPage
          /\ extensionGUID' = ""
    /\ UNCHANGED <<xpiVars, o, profileCreated, removeFailed, userJsFetched, launched,
                   profileDirExists, userJsExists, userJsWritten, sigVars, tagVars,
                   remaining>>

\* Lines 482-488: the extension is downloaded to extensions/<GUID>.xpi; the
\* page and the GUID are locals of the loop's body.
DownloadXpi ==
    /\ pc = "dl_xpi"
    /\ \E r \in HTTPResults :
          IF r = "err"
          THEN /\ Return(<<"failed to download extension">>)
               /\ UNCHANGED <<downloaded, extensionSlug, pageHTML, extensionGUID>>
          ELSE /\ pc' = "ext"
               /\ err' = err
               /\ downloaded' = downloaded \cup {extensionSlug}
               /\ extensionSlug' = ""
               /\ pageHTML' = NoPage
               /\ extensionGUID' = ""
    /\ UNCHANGED <<xpiVars, o, profileCreated, removeFailed, userJsFetched, launched,
                   profileDirExists, userJsExists, userJsWritten, sigVars, tagVars,
                   remaining>>

\* Lines 490-494: the range is over, the function literal returns nil.
ProfileCreated ==
    /\ pc = "ext"
    /\ remaining = {}
    /\ profileCreated' = TRUE
    /\ pc' = "launch"
    /\ UNCHANGED <<xpiVars, o, err, removeFailed, userJsFetched, launched, diskVars, sigVars,
                   tagVars, extVars>>

\* Lines 497-500: cmd.Run starts firefox on the profile, or fails to.
StartFirefox ==
    /\ pc = "launch"
    /\ \E r \in ExecResults :
          IF r = "err"
          THEN /\ Return(<<"firefox execution failed">>)
               /\ launched' = launched
          ELSE /\ pc' = "running"
               /\ err' = err
               /\ launched' = TRUE
    /\ UNCHANGED <<xpiVars, o, profileCreated, removeFailed, userJsFetched, diskVars, sigVars,
                   tagVars, extVars>>

\* Lines 500-503: firefox exits by itself, with status 0 or not.
FirefoxExits ==
    /\ pc = "running"
    /\ \E r \in {"ok", "err"} :
          /\ pc' = "defers"
          /\ err' = IF r = "err" THEN <<"firefox execution failed">> ELSE <<>>
    /\ UNCHANGED <<xpiVars, o, profileCreated, removeFailed, userJsFetched, launched,
                   diskVars, sigVars, tagVars, extVars>>

\* exec.CommandContext: firefox is killed once ctx is cancelled.
FirefoxKilled ==
    /\ pc = "running"
    /\ ctxDone
    /\ Return(<<"firefox execution failed">>)
    /\ UNCHANGED <<xpiVars, o, profileCreated, removeFailed, userJsFetched, launched,
                   diskVars, sigVars, tagVars, extVars>>

\* DeleteOnExit with the two conditions joined by 'and'.
DeleteOnExitBoth(keep, created) == ~keep /\ ~created

\* DeleteOnExit without the test of profileCreated.
DeleteOnExitUnlessKeep(keep, created) == ~keep

\* Line 298: the condition of the deferred deletion.
DeleteOnExit(keep, created) == ~keep \/ ~created

\* Lines 296-308, run returns: the deferred cancel(), then the deferred
\* deletion of the profile, which may fail. The locals of run are gone.
Deferred ==
    /\ pc = "defers"
    /\ pc' = "returned"
    /\ ctxDone' = TRUE
    /\ IF DeleteOnExit(o.Keep, profileCreated)
       THEN \E r \in {"ok", "err"} :
               IF r = "err"
               THEN /\ removeFailed' = TRUE
                    /\ UNCHANGED diskVars
               ELSE /\ removeFailed' = removeFailed
                    /\ profileDirExists' = FALSE
                    /\ userJsExists' = FALSE
                    /\ downloaded' = {}
                    /\ userJsWritten' = userJsWritten
       ELSE UNCHANGED <<removeFailed, diskVars>>
    /\ firefoxVersionMajor' = 0
    /\ tags' = <<>>
    /\ choosenTag' = ZeroTag
    /\ remaining' = {}
    /\ extensionSlug' = ""
    /\ pageHTML' = NoPage
    /\ extensionGUID' = ""
    /\ UNCHANGED <<xpiVars, o, err, profileCreated, userJsFetched, launched, signals, handler>>

\* Line 310: an interrupt arrives while the handler is installed and is
\* buffered in the channel. An interrupt that arrives after the goroutine
\* has ended stays in the channel unread and changes nothing run does.
Interrupt ==
    /\ pc \notin {"start", "returned"}
    /\ handler = "waiting"
    /\ signals = 0
    /\ signals' = 1
    /\ UNCHANGED <<xpiVars, o, pc, err, profileCreated, removeFailed, userJsFetched, launched,
                   diskVars, ctxDone, handler, tagVars, extVars>>

\* HandleSignal with the call of cancel left out.
HandleSignalNoCancel ==
    /\ pc \notin {"start", "returned"}
    /\ handler = "waiting"
    /\ signals = 1
    /\ signals' = 0
    /\ handler' = "done"
    /\ UNCHANGED <<xpiVars, o, pc, err, profileCreated, removeFailed, userJsFetched, launched,
                   diskVars, ctxDone, tagVars, extVars>>

\* Lines 311-314: the goroutine receives the signal and cancels ctx.
HandleSignal ==
    /\ pc \notin {"start", "returned"}
    /\ handler = "waiting"
    /\ signals = 1
    /\ signals' = 0
    /\ handler' = "done"
    /\ ctxDone' = TRUE
    /\ UNCHANGED <<xpiVars, o, pc, err, profileCreated, removeFailed, userJsFetched, launched,
                   diskVars, tagVars, extVars>>

Next ==
    \/ RunHelp
    \/ RunLicense
    \/ Setup
    \/ CreateDirectories
    \/ FirefoxVersion
    \/ QueryGithub
    \/ SelectTag
    \/ DownloadDefault
    \/ DownloadZip
    \/ ExtractZip
    \/ DownloadCustom
    \/ AppendPrefs
    \/ FetchPage
    \/ ExtractGUID
    \/ DownloadXpi
    \/ ProfileCreated
    \/ StartFirefox
    \/ FirefoxExits
    \/ FirefoxKilled
    \/ Deferred
    \/ Interrupt
    \/ HandleSignal

Spec == Init /\ [][Next]_vars

(***************************************************************************)
(* run with its scheduling, over a few responses of the network            *)
(***************************************************************************)
\* Responses of the tags query: no tag, one tag, two tags, and one tag
\* without a version string.
FewListings ==
    { <<>>,
      <<Tag(<<"9", "1", ".", "0">>)>>,
      <<Tag(<<"9", "1", ".", "0">>), Tag(<<"9", "1", ".", "2">>)>>,
      <<Tag(<<"9", "1", ".", "b">>)>> }

\* Extension pages: one that fails to decode, one without a script, and
\* one whose state block names one extension.
FewPages ==
    { [decodeErr |-> TRUE, scripts |-> <<>>],
      [decodeErr |-> FALSE, scripts |-> <<>>],
      [decodeErr |-> FALSE,
       scripts |-> <<[ID |-> StateID,
                      Inner |-> Doc(<<Member("uBlock0@raymondhill.net", "int")>>)]>>] }

\* Lines 361-368, QueryGithub with the response drawn from FewListings.
QueryGithubFew ==
    /\ pc = "query"
    /\ \/ /\ Return(<<"failed to query github">>)
          /\ tags' = tags
       \/ /\ Return(<<"failed to unmarshal github response">>)
          /\ tags' = tags
       \/ \E body \in FewListings :
             /\ pc' = "tags"
             /\ err' = err
             /\ tags' = body
    /\ UNCHANGED <<xpiVars, o, profileCreated, removeFailed, userJsFetched, launched,
                   diskVars, sigVars, firefoxVersionMajor, choosenTag, extVars>>

\* Lines 471-477, FetchPage with the page drawn from FewPages.
FetchPageFew ==
    /\ pc = "ext"
    /\ remaining # {}
    /\ \E slug \in remaining :
          /\ remaining' = remaining \ {slug}
          /\ extensionSlug' = slug
          /\ \/ /\ Return(<<"cannot open url">>)
                /\ pageHTML' = pageHTML
             \/ \E page \in FewPages :
                   /\ pc' = "guid"
                   /\ err' = err
                   /\ pageHTML' = page
    /\ UNCHANGED <<xpiVars, o, profileCreated, removeFailed, userJsFetched, launched,
                   diskVars, sigVars, tagVars, extensionGUID>>

\* The statements of run that wait for something outside the program or
\* write to the disk, and the return through the deferred functions. The
\* arrival of an interrupt and the user closing the browser are no
\* statements of run: nothing in the program makes them happen.
RunSteps ==
    \/ RunHelp
    \/ RunLicense
    \/ Setup
    \/ CreateDirectories
    \/ FirefoxVersion
    \/ QueryGithubFew
    \/ DownloadDefault
    \/ DownloadZip
    \/ ExtractZip
    \/ DownloadCustom
    \/ AppendPrefs
    \/ FetchPageFew
    \/ ExtractGUID
    \/ DownloadXpi
    \/ ProfileCreated
    \/ StartFirefox
    \/ FirefoxKilled
    \/ Deferred

NextFew ==
    \/ RunSteps
    \/ SelectTag
    \/ FirefoxExits
    \/ Interrupt
    \/ HandleSignal

\* Lines 369-399 only compute: run leaves the choice of a tag, to one of
\* the places SelectOutcome names.
TagChoiceEnds == pc = "tags" /\ pc' \in {"dl_default", "dl_zip", "defers"}

\* The main goroutine keeps executing (each request ends, by line 337's
\* timeout at the latest, and a command started under ctx is killed once
\* ctx is cancelled), and the goroutine of lines 311-314 runs once a
\* signal is in the channel.
FairSpec ==
    /\ Init /\ [][NextFew]_vars
    /\ WF_vars(RunSteps)
    /\ WF_pc(TagChoiceEnds)
    /\ WF_vars(HandleSignal)

(***************************************************************************)
(* extractGUIDFromXPI called on any archive                                *)
(***************************************************************************)
InitXPI ==
    /\ o = [Help |-> FALSE, License |-> FALSE, Keep |-> FALSE,
            UserJsURL |-> notSetUserJsURL, Extensions |-> {}]
    /\ RunInit
    /\ xpi \in XPIs
    /\ xpiPc = "call"
    /\ xpiResult = NoResult

CallExtractGUIDFromXPI ==
    /\ xpiPc = "call"
    /\ xpiPc' = "done"
    /\ xpiResult' = ExtractGUIDFromXPI(xpi)
    /\ UNCHANGED <<xpi, o, pc, err, profileCreated, removeFailed, userJsFetched,
                   launched, diskVars, sigVars, tagVars, extVars>>

NextXPI == CallExtractGUIDFromXPI

SpecXPI == InitXPI /\ [][NextXPI]_vars

(***************************************************************************)
(* Release selection (C1-C4, C7)                                           *)
(***************************************************************************)
\* Indices of the tags of the listing that parse to the target major.
Matching == {i \in 1..Len(tags) :
                LET v == VersionMajorMinor(tags[i])
                IN  ~v.err /\ v.major = firefoxVersionMajor}

MinorOf(i) == VersionMajorMinor(tags[i]).minor

\* Indices of the matching tags with the greatest minor.
MaxMatching == {i \in Matching : \A j \in Matching : MinorOf(j) <= MinorOf(i)}

\* The selection has been made on a non-empty listing: a tag was chosen
\* and its archive is about to be downloaded, or run failed on the choice.
SelectionDone == pc = "dl_zip" \/ (pc = "defers" /\ err = ErrInvalidTag)

\* The listing has been dealt with, empty or not.
ListingHandled == SelectionDone \/ pc = "dl_default"

\* C1: when some tag of the listing parses to the target major, the tag
\* selected is a tag of that major whose minor is the greatest among the
\* tags of that major (a greatest minor of 0 and any length included).
C1_SelectsGreatestMinor ==
    (SelectionDone /\ Matching # {}) =>
        \E i \in MaxMatching : pc = "dl_zip" /\ choosenTag = tags[i]

\* C2: when no tag of the listing, empty or not, parses to the target
\* major, no tag is selected and run goes on to download the master
\* user.js; it neither selects a tag of another major nor fails.
C2_NoMatchFallsBack ==
    (ListingHandled /\ Matching = {}) =>
        (pc = "dl_default" /\ choosenTag = ZeroTag /\ err = <<>>)

\* C3: when exactly one tag of the listing parses to the target major,
\* that tag is selected, whatever else the listing holds and whatever the
\* tag's minor.
C3_SingleCandidate ==
    (ListingHandled /\ Cardinality(Matching) = 1) =>
        \A i \in Matching : pc = "dl_zip" /\ choosenTag = tags[i]

\* The listing without the tags whose ref does not parse to <major>.<minor>.
Parseable(listing) == SelectSeq(listing, LAMBDA t : ~VersionMajorMinor(t).err)

\* C4: a tag whose ref does not parse is left out and never makes the
\* selection fail: run goes on, with the same chosen tag, as it would on
\* the listing without the tags that do not parse.
C4_UnparseableIgnored ==
    ListingHandled =>
        LET out == SelectOutcome(Parseable(tags), firefoxVersionMajor)
        IN  pc = out.pc /\ choosenTag = out.choosenTag /\ err = out.err

\* C7: when several tags of the target major share the greatest minor, the
\* tag selected is the first of them in the listing's order.
C7_FirstOfTies ==
    (SelectionDone /\ Cardinality(MaxMatching) >= 2) =>
        LET first == CHOOSE i \in MaxMatching : \A j \in MaxMatching : i <= j
        IN  pc = "dl_zip" /\ choosenTag = tags[first]

ProvisioningErrors ==
    { "cannot create profiles directory", "cannot create profile directory",
      "cannot create extensions directory",
      "failed to run command 'firefox --version'",
      "regular expression failed to find matches",
      "failed to identify firefox version", "failed to query github",
      "failed to unmarshal github response", "invalid tag version",
      "failed to download user.js", "failed to open zip",
      "failed to open file in zip", "failed to create file",
      "failed to copy file from zip", "failed to access user.js file",
      "failed to open user.js", "failed to write to user.js", "cannot open url",
      "failed to extract GUID from html", "failed to download extension" }

\* C6: after a provisioning step failed run returns its error and firefox
\* is never launched; firefox runs only on a profile in which user.js was
\* written and every requested extension was downloaded.
C6_AbortOnProvisioningFailure ==
    /\ (err # <<>> /\ err[1] \in ProvisioningErrors) =>
          (~launched /\ ~profileCreated /\ pc \in {"defers", "returned"})
    /\ (pc \in {"launch", "running"} \/ launched) => profileCreated
    /\ pc \in {"launch", "running"} =>
          (err = <<>> /\ userJsExists /\ userJsWritten /\ downloaded = o.Extensions)

\* C6's case: the first extension is in the profile, the download of the
\* second failed, run is returning the error without launching firefox.
C6_Witness ==
    /\ pc = "defers"
    /\ err = <<"failed to download extension">>
    /\ o.Extensions = Slugs
    /\ Cardinality(downloaded) = 1
    /\ ~launched

(***************************************************************************)
(* GUID of a page (C8-C10)                                                 *)
(***************************************************************************)
\* extractGUIDFromHTML has returned for pageHTML.
GuidDone ==
    \/ pc = "dl_xpi"
    \/ pc = "defers" /\ err # <<>> /\ err[1] = "failed to extract GUID from html"

\* Its error (NoErr when it returned a GUID).
GuidErr == IF pc = "dl_xpi" THEN NoErr ELSE err[2]

\* Indices of the scripts of pageHTML with the marker id.
StateScripts == {i \in 1..Len(pageHTML.scripts) : pageHTML.scripts[i].ID = StateID}

\* The text of the first of them.
FirstStateText ==
    pageHTML.scripts[CHOOSE i \in StateScripts : \A j \in StateScripts : i <= j].Inner

\* C8 as stated: when the first script with the marker id holds a JSON
\* document whose addons.byGUID has exactly one entry, that entry's key is
\* returned without error, whatever the other scripts are.
C8_SingleEntryReturned ==
    (GuidDone /\ StateScripts # {} /\ FirstStateText.syntax = "valid"
       /\ Len(FirstStateText.members) = 1) =>
        (GuidErr = NoErr /\ extensionGUID = FirstStateText.members[1].key)

\* C8 amended: when the first script with the marker id holds a JSON
\* document whose addons.byGUID has exactly one entry, with an integer
\* value, that entry's key is returned without error, whatever the other
\* scripts are.
C8_SingleIntEntryReturned ==
    (GuidDone /\ StateScripts # {} /\ FirstStateText.syntax = "valid"
       /\ Len(FirstStateText.members) = 1
       /\ FirstStateText.members[1].val = "int") =>
        (GuidErr = NoErr /\ extensionGUID = FirstStateText.members[1].key)

\* C8's case: the single entry of the first marked script was returned,
\* with another marked script, which is no JSON, behind it.
C8_Witness ==
    /\ pc = "dl_xpi"
    /\ Len(pageHTML.scripts) = 2
    /\ StateScripts = {1, 2}
    /\ pageHTML.scripts[2].Inner = InvalidText
    /\ Len(pageHTML.scripts[1].Inner.members) = 1
    /\ extensionGUID = "uBlock0@raymondhill.net"

\* C9 as stated: when a script with the marker id holds a text that is no
\* JSON document, the empty text included, extraction fails with the
\* error of malformed JSON.
C9_MalformedJSON ==
    (GuidDone /\ \E i \in StateScripts : pageHTML.scripts[i].Inner.syntax # "valid") =>
        GuidErr = ErrUnmarshal

\* C9 amended: when the first script with the marker id holds a non-empty
\* text that is no JSON document, extraction fails with the error of
\* malformed JSON; when it holds the empty text, extraction fails with the
\* error of a missing state block.
C9_FirstNonEmptyMalformed ==
    /\ (GuidDone /\ StateScripts # {} /\ FirstStateText.syntax = "invalid") =>
          (GuidErr = ErrUnmarshal /\ extensionGUID = "")
    /\ (GuidDone /\ StateScripts # {} /\ FirstStateText.syntax = "empty") =>
          (GuidErr = ErrEmpty /\ extensionGUID = "")

\* C9's case: run failed on a page whose first marked script is no JSON.
C9_Witness ==
    /\ pc = "defers"
    /\ err = <<"failed to extract GUID from html", ErrUnmarshal>>
    /\ StateScripts # {}
    /\ FirstStateText = InvalidText

\* The elements of s at the indices of I, in order.
Restrict(s, I) ==
    LET F[k \in 0..Len(s)] ==
            IF k = 0 THEN <<>>
            ELSE IF k \in I THEN Append(F[k - 1], s[k]) ELSE F[k - 1]
    IN  F[Len(s)]

\* pageHTML with, of its marked scripts, only the first.
FirstOnly ==
    LET first == CHOOSE i \in StateScripts : \A j \in StateScripts : i <= j
    IN  [decodeErr |-> pageHTML.decodeErr,
         scripts |-> Restrict(pageHTML.scripts,
                              {i \in 1..Len(pageHTML.scripts) :
                                  i \notin StateScripts \/ i = first})]

\* The first marked script decides: the result is one that extraction has
\* on the page without the marked scripts behind the first.
FirstDecides ==
    (GuidDone /\ StateScripts # {}) =>
        [guid |-> extensionGUID, err |-> GuidErr] \in ExtractGUIDFromHTML(FirstOnly)

ManifestFiles == {i \in 1..Len(xpi.File) : xpi.File[i].Name = ManifestName}

\* The first of them.
TheManifestFile ==
    xpi.File[CHOOSE i \in ManifestFiles : \A j \in ManifestFiles : i <= j]

\* extractGUIDFromXPI has returned on an archive whose manifest.json was
\* opened and decoded.
ManifestDecoded ==
    /\ xpiPc = "done"
    /\ ~xpi.openErr
    /\ ManifestFiles # {}
    /\ ~TheManifestFile.openErr
    /\ ~TheManifestFile.manifest.decodeErr

\* C11: of a decoded manifest the result is the id of
\* browser_specific_settings when it is not empty; otherwise the id of
\* applications when it is not empty; otherwise the failure 'ID not found'.
C11_ManifestPrecedence ==
    ManifestDecoded =>
        LET m == TheManifestFile.manifest
        IN  /\ m.bss # "" => xpiResult = [guid |-> m.bss, err |-> <<>>]
            /\ (m.bss = "" /\ m.app # "") => xpiResult = [guid |-> m.app, err |-> <<>>]
            /\ (m.bss = "" /\ m.app = "") =>
                  /\ xpiResult.guid = ""
                  /\ xpiResult.err = <<"failed to extract GUID from manifest.json", ErrNoID>>

\* C11's case: both ids are given and differ, and the id of
\* browser_specific_settings was returned.
C11_Witness ==
    /\ ManifestDecoded
    /\ TheManifestFile.manifest.bss = "x@y"
    /\ TheManifestFile.manifest.app = "{d10d0bf8}"
    /\ xpiResult = [guid |-> "x@y", err |-> <<>>]

(***************************************************************************)
(* Source of user.js (C12)                                                 *)
(***************************************************************************)
\* Positions of the path that matches an arkenfox release.
ArkenfoxPath == {"ffversion", "query", "tags", "dl_default", "dl_zip", "unzip"}

\* run has left the branch on -userjs behind without an error.
PastUserJs == pc \in {"prefs", "ext", "guid", "dl_xpi", "launch", "running"}

\* C12: with -userjs "" no user.js download is ever attempted; with
\* -userjs not given (the flag's default, notSetUserJsURL) the arkenfox
\* path is taken and nothing but the master file or a tag's archive is
\* downloaded; with another value exactly that URL is downloaded. One
\* branch is taken per run, and it downloads at most once.
C12_UserJsSource ==
    /\ o.UserJsURL = "" =>
          (userJsFetched = {} /\ pc \notin ArkenfoxPath \cup {"dl_custom"})
    /\ o.UserJsURL = notSetUserJsURL =>
          /\ pc # "dl_custom"
          /\ \A f \in userJsFetched : f.url \in {DefaultURL, ZipURL}
          /\ PastUserJs => Cardinality(userJsFetched) = 1
    /\ o.UserJsURL \notin {"", notSetUserJsURL} =>
          /\ pc \notin ArkenfoxPath
          /\ userJsFetched \subseteq {[url |-> o.UserJsURL, ref |-> <<>>]}
          /\ PastUserJs => userJsFetched # {}
    /\ Cardinality(userJsFetched) <= 1

\* C12's case: firefox runs on a profile made with -userjs "", for which
\* nothing was downloaded as user.js.
C12_Witness ==
    /\ o.UserJsURL = ""
    /\ pc = "running"
    /\ userJsWritten
    /\ userJsFetched = {}

DeletionDecided ==
    profileDirExists => ((o.Keep /\ profileCreated) \/ removeFailed)

====
